---- MODULE Spec2Model ----
(***************************************************************************)
(* Model of pint/delegates/formatter/html.py (HTMLFormatter).              *)
(*                                                                         *)
(* Strings are sequences of one-character strings, so that the regular     *)
(* expressions and the textual replacements of the module are computed on  *)
(* characters, as the code computes them.                                  *)
(***************************************************************************)
EXTENDS Integers, Sequences, FiniteSets, TLC

(***************************************************************************)
(* Bounds of the model.                                                    *)
(***************************************************************************)
\* longest output of a magnitude's _repr_html_ that is enumerated
MaxReprLen == 4
\* most columns of an enumerated array-like magnitude
MaxCols == 2
\* most zeros that pad the exponent of an enumerated uncertainty rendering
MaxZeros == 2

(***************************************************************************)
(* Characters and generic string helpers.                                  *)
(***************************************************************************)
None == "None"

Digits == {"0", "1", "2", "3", "4", "5", "6", "7", "8", "9"}

DigitSeq == <<"0", "1", "2", "3", "4", "5", "6", "7", "8", "9">>

DigitVal(c) == CHOOSE d \in 0..9 : DigitSeq[d + 1] = c

MinOf(S) == CHOOSE x \in S : \A y \in S : x <= y

\* the strings of length at most n over the characters A
StringsUpTo(A, n) == UNION {[1..k -> A] : k \in 0..n}

RECURSIVE Join(_, _)
\* sep.join(ss)
Join(sep, ss) ==
    IF ss = <<>> THEN <<>>
    ELSE IF Len(ss) = 1 THEN ss[1]
    ELSE ss[1] \o sep \o Join(sep, Tail(ss))

RECURSIVE Repeat(_, _)
\* c * n
Repeat(c, n) == IF n <= 0 THEN <<>> ELSE <<c>> \o Repeat(c, n - 1)

\* s.startswith(p) at index i (1-based)
HasAt(s, i, p) ==
    /\ i >= 1
    /\ i + Len(p) - 1 <= Len(s)
    /\ \A k \in 1..Len(p) : s[i + k - 1] = p[k]

RECURSIVE ReplaceFrom(_, _, _, _)
\* str.replace(old, new), scanning from index i, for a non-empty old
ReplaceFrom(s, i, old, new) ==
    IF i > Len(s) THEN <<>>
    ELSE IF HasAt(s, i, old) THEN new \o ReplaceFrom(s, i + Len(old), old, new)
    ELSE <<s[i]>> \o ReplaceFrom(s, i + 1, old, new)

\* s.replace(old, new)
Replace(s, old, new) == ReplaceFrom(s, 1, old, new)

Contains(s, p) == \E i \in 1..Len(s) : HasAt(s, i, p)

RECURSIVE NatToStr(_)
\* str(n) for n >= 0
NatToStr(n) ==
    IF n < 10 THEN <<DigitSeq[n + 1]>>
    ELSE NatToStr(n \div 10) \o <<DigitSeq[(n % 10) + 1]>>

\* str(n) for an integer n
IntToStr(n) == IF n < 0 THEN <<"-">> \o NatToStr(0 - n) ELSE NatToStr(n)

RECURSIVE ParseNat(_)
\* int(s) for a non-empty string of digits
ParseNat(s) ==
    IF Len(s) = 1 THEN DigitVal(s[1])
    ELSE 10 * ParseNat(SubSeq(s, 1, Len(s) - 1)) + DigitVal(s[Len(s)])

\* int(s) for an optional '-' followed by digits
ParseInt(s) == IF s[1] = "-" THEN 0 - ParseNat(Tail(s)) ELSE ParseNat(s)

\* the index of the last character of the longest run of digits of s that
\* starts at index i (i - 1 when s[i] is no digit)
DigitRunEnd(s, i) ==
    LET stops == {k \in i..Len(s) : s[k] \notin Digits}
    IN  IF stops = {} THEN Len(s) ELSE MinOf(stops) - 1

\* the digits d without their leading zeros, keeping one digit
StripZeros(d) ==
    LET nz == {k \in 1..Len(d) : d[k] # "0"}
    IN  IF nz = {} THEN <<"0">> ELSE SubSeq(d, MinOf(nz), Len(d))

\* _EXP_PATTERN: a digit, an optional '.', digits, 'e', an optional '-', an
\* optional '+', zeros, and one digit or more; the groups are the mantissa
\* (1), the '-' (2) and the digits after the zeros (3)
NoMatch == [ok |-> FALSE]

\* the match of _EXP_PATTERN that starts at index i of s, as the
\* backtracking matcher finds it: every quantifier is greedy, and the only
\* alternative that can succeed is 0* giving back one zero to [0-9]+
ExpMatchAt(s, i) ==
    IF ~(i >= 1 /\ i <= Len(s) /\ s[i] \in Digits) THEN NoMatch
    ELSE
    LET p == IF i + 1 <= Len(s) /\ s[i + 1] = "." THEN i + 2 ELSE i + 1
        m == DigitRunEnd(s, p)
        e == m + 1
    IN  IF ~(e <= Len(s) /\ s[e] = "e") THEN NoMatch
        ELSE
        LET neg == e + 1 <= Len(s) /\ s[e + 1] = "-"
            q == IF neg THEN e + 2 ELSE e + 1
            r == IF q <= Len(s) /\ s[q] = "+" THEN q + 1 ELSE q
            z == DigitRunEnd(s, r)
        IN  IF z < r THEN NoMatch
            ELSE [ok |-> TRUE,
                  last |-> z,
                  g1 |-> SubSeq(s, i, m),
                  g2 |-> IF neg THEN <<"-">> ELSE <<>>,
                  g3 |-> StripZeros(SubSeq(s, r, z))]

\* _EXP_PATTERN.match(s): a match at the start of the string only
ExpMatch(s) == ExpMatchAt(s, 1)

SupOpen == <<"<", "s", "u", "p", ">">>

SupClose == <<"<", "/", "s", "u", "p", ">">>

Times10 == <<"×", "1", "0">>

\* _exp_formatter = lambda s: f"<sup>{s}</sup>"
ExpFormatter(n) == SupOpen \o IntToStr(n) \o SupClose

RECURSIVE ExpSubFrom(_, _, _)
\* _EXP_PATTERN.sub(r"\1×10" + tail, s), scanning from index i: every
\* non-overlapping match is replaced by its own group 1 and the fixed tail
ExpSubFrom(s, i, tail) ==
    IF i > Len(s) THEN <<>>
    ELSE LET mt == ExpMatchAt(s, i)
         IN  IF mt.ok THEN mt.g1 \o Times10 \o tail \o ExpSubFrom(s, mt.last + 1, tail)
             ELSE <<s[i]>> \o ExpSubFrom(s, i + 1, tail)

\* the variant of PostProcess that rewrites without the test of the match at
\* the start of the string
PostProcessUnanchored(mstr) ==
    LET firsts == {i \in 1..Len(mstr) : ExpMatchAt(mstr, i).ok}
    IN  IF firsts = {} THEN mstr
        ELSE LET mt == ExpMatchAt(mstr, MinOf(firsts))
             IN  ExpSubFrom(mstr, 1, ExpFormatter(ParseInt(mt.g2 \o mt.g3)))

\* lines 67-74 of format_magnitude
PostProcess(mstr) ==
    LET m == ExpMatch(mstr)
    IN  IF m.ok
        THEN LET exp == ParseInt(m.g2 \o m.g3)
             IN  ExpSubFrom(mstr, 1, ExpFormatter(exp))
        ELSE mstr

(***************************************************************************)
(* Magnitudes.  A float is sign, leading digit, fraction digits and        *)
(* decimal exponent: (-1)^neg * lead.frac * 10^exp.  A scalar is a float   *)
(* or a complex number (im holds the imaginary part).  The values of every *)
(* magnitude are held in rows of scalars: a scalar and a zero-dimensional  *)
(* array hold one row of one value.                                        *)
(***************************************************************************)
ExpValues == {-5, 0, 16}

Floats == [neg : BOOLEAN, lead : {"1"}, frac : {<<>>, <<"5">>}, exp : ExpValues,
           im : {<<>>}]

F(neg, frac, exp) == [neg |-> neg, lead |-> "1", frac |-> frac, exp |-> exp, im |-> <<>>]

\* complex scalars: re + im j
Complexes ==
    {[F(FALSE, <<>>, 16) EXCEPT !.im = <<F(FALSE, <<"5">>, -5)>>],
     [F(TRUE, <<"5">>, 16) EXCEPT !.im = <<F(TRUE, <<>>, 0)>>]}

Scalars == Floats \cup Complexes

\* the elements of the enumerated arrays
Elems == {F(FALSE, <<"5">>, 0), F(FALSE, <<>>, 16)}

Rows == UNION {[1..c -> Elems] : c \in 1..MaxCols}

\* what magnitude._repr_html_() does: returns a string, returns an object
\* that is no string, or raises
ReprChars == {"1", "e", "-"}

ReprResults ==
    {[tag |-> "str", s |-> s] : s \in StringsUpTo(ReprChars, MaxReprLen)}
    \cup {[tag |-> "nonstr", s |-> <<>>], [tag |-> "raise", s |-> <<>>]}

\* the values of a magnitude, by kind: a plain scalar, an ndarray of
\* dimension 0, 1 or 2, and another iterable (array-like) of one or two rows
ValueShapes ==
    {[kind |-> "scalar", ndim |-> 0, rows |-> <<<<v>>>>] : v \in Scalars}
    \cup {[kind |-> "ndarray", ndim |-> 0, rows |-> <<<<v>>>>] : v \in Floats}
    \cup {[kind |-> k, ndim |-> 1, rows |-> <<r>>] : k \in {"ndarray", "iterable"}, r \in Rows}
    \cup {[kind |-> k, ndim |-> 2, rows |-> <<r1, r2>>] :
             k \in {"ndarray", "iterable"},
             r1 \in [1..1 -> Elems], r2 \in [1..1 -> Elems]}

\* one value of each kind, for the magnitudes that render themselves (the
\* code never looks at the value of such a magnitude)
ReprShapes ==
    {[kind |-> "scalar", ndim |-> 0, rows |-> <<<<F(FALSE, <<"5">>, 0)>>>>],
     [kind |-> "ndarray", ndim |-> 0, rows |-> <<<<F(FALSE, <<"5">>, 0)>>>>],
     [kind |-> "ndarray", ndim |-> 1, rows |-> <<<<F(FALSE, <<"5">>, 0), F(FALSE, <<>>, 16)>>>>],
     [kind |-> "iterable", ndim |-> 1, rows |-> <<<<F(FALSE, <<"5">>, 0), F(FALSE, <<>>, 16)>>>>]}

WithRepr(shape, r) ==
    [kind |-> shape.kind, ndim |-> shape.ndim, rows |-> shape.rows, repr |-> r]

PlainMagnitudes == {WithRepr(v, <<>>) : v \in ValueShapes}

SelfRendering == {WithRepr(v, <<r>>) : v \in ReprShapes, r \in ReprResults}

Magnitudes == PlainMagnitudes \cup SelfRendering

\* hasattr(magnitude, "_repr_html_")
HasReprHtml(magnitude) == magnitude.repr # <<>>

\* isinstance(magnitude, ndarray)
IsNdarray(magnitude) == magnitude.kind = "ndarray"

\* pint.util.iterable: iter(y) succeeds; iterating a zero-dimensional array
\* raises TypeError
Iterable(magnitude) == magnitude.ndim >= 1

(***************************************************************************)
(* The number formatter handed out by override_locale.                     *)
(***************************************************************************)
LocaleNames == {"C", "de_DE"}

\* the decimal separator of the LC_NUMERIC locale
DecimalPoint(loc) == IF loc = "de_DE" THEN "," ELSE "."

\* the format specs of a magnitude: '', 'e' and the invalid 'ee'
SpecE == <<"e">>

ValidMSpecs == {<<>>, SpecE}

\* two digits at least, as the exponent of a float is written
Pad2(n) == IF n < 10 THEN <<"0">> \o NatToStr(n) ELSE NatToStr(n)

\* the exponent part e+NN / e-NN
ExpPart(exp) ==
    <<"e", IF exp < 0 THEN "-" ELSE "+">> \o Pad2(IF exp < 0 THEN 0 - exp ELSE exp)

\* repr-style rendering of a float (spec ''), with decimal separator dp;
\* dotZero says whether an integral value ends in '.0' (floats) or not (the
\* parts of a complex number)
FloatRepr(v, dp, dotZero) ==
    LET sign == IF v.neg THEN <<"-">> ELSE <<>>
        digits == <<v.lead>> \o v.frac
        n == Len(v.frac)
    IN  IF v.exp < -4 \/ v.exp >= 16
        THEN sign \o <<v.lead>> \o (IF n = 0 THEN <<>> ELSE <<dp>> \o v.frac)
             \o ExpPart(v.exp)
        ELSE IF v.exp >= n
        THEN sign \o digits \o Repeat("0", v.exp - n)
             \o (IF dotZero THEN <<dp, "0">> ELSE <<>>)
        ELSE IF v.exp >= 0
        THEN sign \o SubSeq(digits, 1, v.exp + 1) \o <<dp>>
             \o SubSeq(digits, v.exp + 2, Len(digits))
        ELSE sign \o <<"0", dp>> \o Repeat("0", (0 - v.exp) - 1) \o digits

\* 'e' rendering of a float: six fraction digits and the exponent
FloatSci(v, dp) ==
    (IF v.neg THEN <<"-">> ELSE <<>>) \o <<v.lead, dp>> \o v.frac
    \o Repeat("0", 6 - Len(v.frac)) \o ExpPart(v.exp)

\* format(value, spec) of a scalar, for a valid spec
ScalarText(v, spec, dp) ==
    IF v.im = <<>>
    THEN IF spec = SpecE THEN FloatSci(v, dp) ELSE FloatRepr(v, dp, TRUE)
    ELSE LET re == [v EXCEPT !.im = <<>>]
             im == v.im[1]
             plus == IF im.neg THEN <<>> ELSE <<"+">>
         IN  IF spec = SpecE
             THEN FloatSci(re, dp) \o plus \o FloatSci(im, dp) \o <<"j">>
             ELSE <<"(">> \o FloatRepr(re, dp, FALSE) \o plus
                  \o FloatRepr(im, dp, FALSE) \o <<"j", ")">>

\* one row of an array: its elements between brackets
RowText(row, spec, dp) ==
    <<"[">> \o Join(<<" ">>, [k \in 1..Len(row) |-> ScalarText(row[k], spec, dp)])
    \o <<"]">>

\* the text of an array-like: a row, or the rows of a matrix on one line
\* each, as format(ndarray) writes them
ArrayText(magnitude, spec, dp) ==
    IF magnitude.ndim = 1 THEN RowText(magnitude.rows[1], spec, dp)
    ELSE <<"[">>
         \o Join(<<"\n", " ">>,
                 [k \in 1..Len(magnitude.rows) |-> RowText(magnitude.rows[k], spec, dp)])
         \o <<"]">>

(***************************************************************************)
(* Format specs and the helpers that split them.                           *)
(***************************************************************************)
\* the flags that select a formatter or the abbreviated unit names
CustomFlags == {"~", "H"}

IsCustom(c) == c \in CustomFlags

IsNotCustom(c) == c \notin CustomFlags

\* _helpers.remove_custom_flags
RemoveCustomFlags(spec) == SelectSeq(spec, IsNotCustom)

\* _helpers.extract_custom_flags
ExtractCustomFlags(spec) == SelectSeq(spec, IsCustom)

\* _helpers.split_format(spec, default, separate_format_defaults): the pair
\* <<mspec, uspec>>, each part taken from the registry default when absent
SplitFormat(spec, default, separate) ==
    LET m == RemoveCustomFlags(spec)
        u == ExtractCustomFlags(spec)
        dm == RemoveCustomFlags(default)
        du == ExtractCustomFlags(default)
    IN  IF separate
        THEN <<IF m = <<>> THEN dm ELSE m, IF u = <<>> THEN du ELSE u>>
        ELSE IF spec = <<>> THEN <<dm, du>> ELSE <<m, u>>

\* template.format(a, b) for a template with two '{}' fields: the first is
\* replaced by a and the second by b
StrFormat(t, a, b) ==
    LET holes == {i \in 1..(Len(t) - 1) : t[i] = "{" /\ t[i + 1] = "}"}
        h1 == MinOf(holes)
        h2 == MinOf(holes \ {h1})
    IN  SubSeq(t, 1, h1 - 1) \o a \o SubSeq(t, h1 + 2, h2 - 1) \o b
        \o SubSeq(t, h2 + 2, Len(t))

\* _helpers.join_mu: the template filled with magnitude and unit; a unit
\* that renders as the empty string leaves the magnitude alone
JoinMu(joint_fstring, m, u) ==
    IF u = <<>> THEN m ELSE StrFormat(joint_fstring, m, u)

\* _helpers.join_unc: as join_mu, with the value put between lpar and rpar
\* unless its rendering brings its own
JoinUnc(joint_fstring, lpar, rpar, m, u) ==
    IF u = <<>> THEN m
    ELSE IF HasAt(m, 1, lpar) \/ HasAt(m, Len(m) - Len(rpar) + 1, rpar)
    THEN StrFormat(joint_fstring, m, u)
    ELSE StrFormat(joint_fstring, lpar \o m \o rpar, u)

(***************************************************************************)
(* Units and their rendering.                                              *)
(***************************************************************************)
Meter == [name |-> <<"m", "e", "t", "e", "r">>, sym |-> <<"m">>]

Second == [name |-> <<"s", "e", "c", "o", "n", "d">>, sym |-> <<"s">>]

\* a unit is a sequence of <<base unit, exponent>>
Units ==
    {<<>>,
     <<<<Meter, 1>>>>,
     <<<<Meter, 2>>, <<Second, -1>>>>}

Dimensionless ==
    <<"d", "i", "m", "e", "n", "s", "i", "o", "n", "l", "e", "s", "s">>

Abbreviated(uspec) == \E k \in 1..Len(uspec) : uspec[k] = "~"

\* _unit_handlers.format_compound_unit: the <<name, exponent>> pairs of the
\* unit, with symbols for names when the spec holds '~'
FormatCompoundUnit(unit, uspec) ==
    [k \in 1..Len(unit) |->
        <<IF Abbreviated(uspec) THEN unit[k][1].sym ELSE unit[k][1].name, unit[k][2]>>]

IsPos(item) == item[2] > 0

IsNeg(item) == item[2] < 0

\* power_fmt = "{}<sup>{}</sup>", left out for the power 1
PowerFmt(name, n) ==
    IF n = 1 THEN name ELSE name \o SupOpen \o IntToStr(n) \o SupClose

\* _helpers.formatter(items, as_ratio=True, single_denominator=True,
\* product_fmt=" ", division_fmt="{}/{}", power_fmt="{}<sup>{}</sup>",
\* parentheses_fmt="({})")
Formatter(items) ==
    LET pos == SelectSeq(items, IsPos)
        neg == SelectSeq(items, IsNeg)
        num == Join(<<" ">>, [k \in 1..Len(pos) |-> PowerFmt(pos[k][1], pos[k][2])])
        den == Join(<<" ">>, [k \in 1..Len(neg) |-> PowerFmt(neg[k][1], 0 - neg[k][2])])
    IN  IF items = <<>> THEN <<>>
        ELSE IF neg = <<>> THEN num
        ELSE (IF pos = <<>> THEN <<"1">> ELSE num) \o <<"/">>
             \o (IF Len(neg) > 1 THEN <<"(">> \o den \o <<")">> ELSE den)

\* lines 79-89 of format_unit; a dimensionless unit is written out unless
\* abbreviated
FormatUnit(unit, uspec) ==
    IF unit = <<>> /\ ~Abbreviated(uspec) THEN Dimensionless
    ELSE Formatter(FormatCompoundUnit(unit, uspec))

(***************************************************************************)
(* Uncertainties, their own rendering, and format_uncertainty.             *)
(***************************************************************************)
\* the exponent of a rendering: sign, padding zeros and digits
UncExps ==
    [neg : BOOLEAN, zeros : 0..MaxZeros, digits : {<<"5">>, <<"1", "2">>}]

\* nominal value and error, with a common exponent or none
UFloats ==
    [nom : {<<"1", ".", "0">>}, err : {<<"0", ".", "1">>},
     exp : {<<>>} \cup {<<e>> : e \in UncExps}]

\* format(u, spec) of one value: 'e' forces the exponent form
UFloatText(u, spec) ==
    LET e == IF u.exp # <<>> THEN u.exp
             ELSE IF spec = SpecE
             THEN <<[neg |-> FALSE, zeros |-> 1, digits |-> <<"0">>]>>
             ELSE <<>>
        body == u.nom \o <<"+", "/", "-">> \o u.err
    IN  IF e = <<>> THEN body
        ELSE <<"(">> \o body \o <<")", "e", IF e[1].neg THEN "-" ELSE "+">>
             \o Repeat("0", e[1].zeros) \o e[1].digits

\* an uncertainty is one value or a pair of values
Uncertainties == UNION {[1..n -> UFloats] : n \in 1..2}

\* format(uncertainty, unc_spec), for a valid spec
UncertaintyText(unc, spec) ==
    Join(<<" ">>, [k \in 1..Len(unc) |-> UFloatText(unc[k], spec)])

PlusMinus == <<" ", "&", "p", "l", "u", "s", "m", "n", ";", " ">>

\* the group of \)e[sign]0?(\d+) for the digits d that follow the sign: one
\* leading zero is dropped when a digit is left after it
UncGroup(d) == IF Len(d) > 1 /\ d[1] = "0" THEN Tail(d) ELSE d

RECURSIVE UncSubFrom(_, _, _)
\* re.sub(r"\)e[sign]0?(\d+)", r")×10<sup>[-]\1</sup>", s), scanning from
\* index i; sign is '+' or '-'
UncSubFrom(s, i, sign) ==
    IF i > Len(s) THEN <<>>
    ELSE LET z == DigitRunEnd(s, i + 3)
         IN  IF HasAt(s, i, <<")", "e", sign>>) /\ z >= i + 3
             THEN <<")">> \o Times10 \o SupOpen
                  \o (IF sign = "-" THEN <<"-">> ELSE <<>>)
                  \o UncGroup(SubSeq(s, i + 3, z)) \o SupClose
                  \o UncSubFrom(s, z + 1, sign)
             ELSE <<s[i]>> \o UncSubFrom(s, i + 1, sign)

\* lines 127-131 of format_uncertainty, applied to format(uncertainty, spec)
FormatUncertainty(text) ==
    LET a == Replace(text, <<"+", "/", "-">>, PlusMinus)
        b == UncSubFrom(a, 1, "+")
    IN  UncSubFrom(b, 1, "-")

\* the joining templates of format_quantity (lines 105-113)
TableTemplate ==
    <<"<", "t", "a", "b", "l", "e", ">", "<", "t", "b", "o", "d", "y",
      ">", "<", "t", "r", ">", "<", "t", "h", ">", "M", "a", "g", "n",
      "i", "t", "u", "d", "e", "<", "/", "t", "h", ">", "<", "t", "d",
      " ", "s", "t", "y", "l", "e", "=", "'", "t", "e", "x", "t", "-",
      "a", "l", "i", "g", "n", ":", "l", "e", "f", "t", ";", "'", ">",
      "{", "}", "<", "/", "t", "d", ">", "<", "/", "t", "r", ">", "<",
      "t", "r", ">", "<", "t", "h", ">", "U", "n", "i", "t", "s", "<",
      "/", "t", "h", ">", "<", "t", "d", " ", "s", "t", "y", "l", "e",
      "=", "'", "t", "e", "x", "t", "-", "a", "l", "i", "g", "n", ":",
      "l", "e", "f", "t", ";", "'", ">", "{", "}", "<", "/", "t", "d",
      ">", "<", "/", "t", "r", ">", "<", "/", "t", "b", "o", "d", "y",
      ">", "<", "/", "t", "a", "b", "l", "e", ">">>

PlainTemplate == <<"{", "}", " ", "{", "}">>

PreOpen == <<"<", "p", "r", "e", ">">>

PreClose == <<"<", "/", "p", "r", "e", ">">>

Br == <<"<", "b", "r", ">">>

(***************************************************************************)
(* Errors.  An error is named by who raises it and by its kind.            *)
(***************************************************************************)
ReprError == [by |-> "_repr_html_", kind |-> "Exception"]

NumberError == [by |-> "format_number", kind |-> "ValueError"]

ArrayError == [by |-> "numpy", kind |-> "TypeError"]

UnitError == [by |-> "format_compound_unit", kind |-> "Exception"]

UncertaintyError == [by |-> "uncertainty.__format__", kind |-> "ValueError"]

\* assert isinstance(mstr, str), line 42
AssertionFailure == [by |-> "format_magnitude", kind |-> "AssertionError"]

\* _EXP_PATTERN.match of an object that is no string, line 67
MatchTypeError == [by |-> "re", kind |-> "TypeError"]

Collaborators ==
    {"_repr_html_", "format_number", "numpy", "format_compound_unit",
     "uncertainty.__format__"}

\* the variant of Propagated that wraps the error in one of the formatter
Wrapped(e) == [by |-> "HTMLFormatter", kind |-> e.kind]

\* the methods hold no try/except: an error raised inside a method leaves it
\* as it was raised
Propagated(e) == e

\* what _repr_html_ returned when it is no string
NonStr == <<"<object>">>

(***************************************************************************)
(* The pieces of format_magnitude (lines 38-74).                           *)
(***************************************************************************)
\* line 41: the output of _repr_html_ is taken as it is
ReprMstr(out) == out

\* the variant of NdarrayMstr that writes <br> for the newlines
NdarrayMstrBr(text) == PreOpen \o Replace(text, <<"\n">>, Br) \o PreClose

\* lines 53-55: "<pre>" + format(magnitude).replace("\n", "") + "</pre>"
NdarrayMstr(text) == PreOpen \o Replace(text, <<"\n">>, <<>>) \o PreClose

\* lines 61-65: "<pre>" + format_number(...).replace("\n", "<br>") + "</pre>"
IterableMstr(text) == PreOpen \o Replace(text, <<"\n">>, Br) \o PreClose

\* the variant of MagnitudeSteps with the rewrite inside the with block
MagnitudeStepsRewriteInside == <<"fm_enter", "fm_body", "fm_post", "fm_exit">>

\* the statements of format_magnitude in order: entering the with block
\* (line 38), its body (39-65), leaving it (65), the rewrite (67-74)
MagnitudeSteps == <<"fm_enter", "fm_body", "fm_exit", "fm_post">>

\* the variant of WithExit that leaves the block without __exit__ on an error
WithExitSkipped(e) == IF e # <<>> THEN "done" ELSE "fm_exit"

\* line 38: a with block is left through __exit__, with or without an error
WithExit(e) == "fm_exit"

\* the variant of JointFstring that takes the table for ndarrays only
JointFstringNdarray(magnitude) ==
    IF IsNdarray(magnitude) THEN TableTemplate ELSE PlainTemplate

\* lines 103-113 of format_quantity
JointFstring(magnitude) ==
    IF Iterable(magnitude) THEN TableTemplate ELSE PlainTemplate

\* the variant of UncSpec that takes the split magnitude spec
UncSpecFromSplit(meas_spec, split_mspec) == split_mspec

\* line 145 of format_measurement: unc_spec = remove_custom_flags(meas_spec)
UncSpec(meas_spec, split_mspec) == RemoveCustomFlags(meas_spec)

(***************************************************************************)
(* Inputs of the calls.                                                    *)
(***************************************************************************)
\* babel_kwds.get("locale", None)
KwLocales == {None, "de_DE"}

MSpecs == {<<>>, SpecE, <<"e", "e">>}

QSpecs == {<<>>, SpecE, <<"~">>, <<"e", "~">>}

DefaultFormats == {<<>>, <<"e", "~">>}

\* the magnitudes of the enumerated quantities
QuantityMagnitudes ==
    PlainMagnitudes
    \cup {WithRepr(v, <<r>>) : v \in ReprShapes,
            r \in {[tag |-> "str", s |-> <<"1", "e", "1">>], [tag |-> "raise", s |-> <<>>]}}

\* the magnitudes of the enumerated measurements
MeasurementMagnitudes == [1..1 -> UFloats]

NoMagnitude == WithRepr(CHOOSE v \in ReprShapes : v.kind = "scalar", <<>>)

NoUncertainty == <<>>

NoCall ==
    [op |-> "none", magnitude |-> NoMagnitude, spec |-> <<>>, kw |-> None,
     unit |-> <<>>, default_format |-> <<>>, separate |-> TRUE,
     uncertainty |-> NoUncertainty]

VARIABLES
    pc,          \* the statement the call in progress is at ("idle": no call)
    call,        \* the operation called and its arguments
    locale,      \* the LC_NUMERIC locale of the process
    saved,       \* the locale the active override restores on exit, if any
    active,      \* the number of locale overrides entered and not left
    mspec,       \* locals of the call
    uspec,
    unc_spec,
    joint_fstring,
    raw,         \* mstr as the with block leaves it
    mstr,
    ustr,
    exc,         \* the error being raised, if any
    result,      \* the string returned, if any
    events,      \* the steps of the call so far, in order
    locale0      \* the locale when the call was made

vars == <<pc, call, locale, saved, active, mspec, uspec, unc_spec, joint_fstring,
          raw, mstr, ustr, exc, result, events, locale0>>

locals == <<mspec, uspec, unc_spec, joint_fstring, raw, mstr, ustr>>

Init ==
    /\ pc = "idle"
    /\ call = NoCall
    /\ locale = "C"
    /\ saved = <<>>
    /\ active = 0
    /\ mspec = <<>>
    /\ uspec = <<>>
    /\ unc_spec = <<>>
    /\ joint_fstring = PlainTemplate
    /\ raw = <<>>
    /\ mstr = <<>>
    /\ ustr = <<>>
    /\ exc = <<>>
    /\ result = <<>>
    /\ events = <<>>
    /\ locale0 = "C"

\* the application sets the locale between two calls
SetLocale ==
    /\ pc = "idle"
    /\ \E l \in LocaleNames \ {locale} : locale' = l
    /\ locale0' = locale'
    /\ UNCHANGED <<pc, call, saved, active, locals, exc, result, events>>

\* a call of op with the arguments args starts at statement first
Begin(op, args, first) ==
    /\ call' = [args EXCEPT !.op = op]
    /\ pc' = first
    /\ locale0' = locale
    /\ UNCHANGED <<locale, saved, active, locals, exc, result, events>>

CallFormatMagnitude ==
    /\ pc = "idle"
    /\ \E m \in Magnitudes, s \in MSpecs, kw \in KwLocales :
        Begin("format_magnitude",
                 [NoCall EXCEPT !.magnitude = m, !.spec = s, !.kw = kw], "fm_enter")

CallFormatUnit ==
    /\ pc = "idle"
    /\ \E u \in Units, s \in {<<>>, <<"~">>}, kw \in KwLocales :
        Begin("format_unit", [NoCall EXCEPT !.unit = u, !.spec = s, !.kw = kw], "fu")

CallFormatQuantity ==
    /\ pc = "idle"
    /\ \E m \in QuantityMagnitudes, s \in QSpecs, kw \in KwLocales, u \in Units,
       d \in DefaultFormats, sep \in BOOLEAN :
        Begin("format_quantity",
              [NoCall EXCEPT !.magnitude = m, !.spec = s, !.kw = kw, !.unit = u,
                             !.default_format = d, !.separate = sep], "fq_split")

CallFormatUncertainty ==
    /\ pc = "idle"
    /\ \E x \in Uncertainties, s \in MSpecs :
        Begin("format_uncertainty",
              [NoCall EXCEPT !.uncertainty = x, !.spec = s], "func")

CallFormatMeasurement ==
    /\ pc = "idle"
    /\ \E x \in MeasurementMagnitudes, s \in QSpecs, kw \in KwLocales, u \in Units,
       d \in DefaultFormats, sep \in BOOLEAN :
        Begin("format_measurement",
              [NoCall EXCEPT !.uncertainty = x, !.spec = s, !.kw = kw, !.unit = u,
                             !.default_format = d, !.separate = sep], "fmeas_split")

\* the statement that follows statement p of format_magnitude; after the
\* last one the method returns: to its caller, or into format_quantity
AfterStep(p) ==
    LET k == CHOOSE j \in 1..Len(MagnitudeSteps) : MagnitudeSteps[j] = p
    IN  IF k < Len(MagnitudeSteps) THEN MagnitudeSteps[k + 1]
        ELSE IF call.op = "format_magnitude" THEN "done" ELSE "fu"

\* the value returned when the call ends at statement p without an error
Returned(p, e, value) == IF p = "done" /\ e = <<>> THEN <<value>> ELSE result

\* the argument of the format_magnitude call: the spec itself, or the
\* magnitude spec of the split
MagnitudeSpec == IF call.op = "format_magnitude" THEN call.spec ELSE mspec

\* line 38: override_locale(babel_kwds.get("locale", None)).__enter__()
OverrideEnter ==
    /\ pc = "fm_enter"
    /\ IF call.kw = None
       THEN UNCHANGED <<locale, saved>>
       ELSE saved' = <<locale>> /\ locale' = call.kw
    /\ active' = active + 1
    /\ events' = Append(events, "acquire")
    /\ pc' = AfterStep("fm_enter")
    /\ UNCHANGED <<call, locals, exc, result, locale0>>

\* the decimal separator of the formatter the override hands out: the
\* builtin format without a locale, the one of the locale in effect with one
Dp == IF call.kw = None THEN "." ELSE DecimalPoint(locale)

\* lines 39-65: <<mstr, error>> for each way the body of the with block can end
BodyOutcomes ==
    LET magnitude == call.magnitude
        spec == MagnitudeSpec
    IN  IF HasReprHtml(magnitude)
        THEN LET r == magnitude.repr[1]
             IN  IF r.tag = "raise" THEN {<<<<>>, <<Propagated(ReprError)>>>>}
                 ELSE IF r.tag = "nonstr"
                 \* the assert raises, or is compiled away and mstr holds the object
                 THEN {<<<<>>, <<AssertionFailure>>>>, <<NonStr, <<>>>>}
                 ELSE {<<ReprMstr(r.s), <<>>>>}
        ELSE IF spec \notin ValidMSpecs THEN {<<<<>>, <<Propagated(NumberError)>>>>}
        ELSE IF IsNdarray(magnitude)
        THEN IF magnitude.ndim = 0
             THEN {<<ScalarText(magnitude.rows[1][1], spec, Dp), <<>>>>}
             ELSE {<<NdarrayMstr(ArrayText(magnitude, spec, Dp)), <<>>>>,
                   <<<<>>, <<Propagated(ArrayError)>>>>}
        ELSE IF ~Iterable(magnitude)
        THEN {<<ScalarText(magnitude.rows[1][1], spec, Dp), <<>>>>}
        ELSE {<<IterableMstr(ArrayText(magnitude, spec, Dp)), <<>>>>}

MagnitudeBody ==
    /\ pc = "fm_body"
    /\ \E o \in BodyOutcomes :
        /\ mstr' = o[1]
        /\ raw' = o[1]
        /\ exc' = o[2]
        /\ pc' = IF o[2] # <<>> THEN WithExit(o[2]) ELSE AfterStep("fm_body")
    /\ events' = Append(events, "render")
    /\ UNCHANGED <<call, locale, saved, active, mspec, uspec, unc_spec, joint_fstring,
                   ustr, result, locale0>>

\* line 65: override_locale(...).__exit__(): the locale saved is set again,
\* and an error raised in the block goes on to the caller
OverrideExit ==
    /\ pc = "fm_exit"
    /\ IF saved # <<>> THEN locale' = saved[1] /\ saved' = <<>>
       ELSE UNCHANGED <<locale, saved>>
    /\ active' = active - 1
    /\ events' = Append(events, "release")
    /\ pc' = IF exc # <<>> THEN "done" ELSE AfterStep("fm_exit")
    /\ result' = Returned(pc', exc, mstr)
    /\ UNCHANGED <<call, locals, exc, locale0>>

\* lines 67-74: the rewrite of the scientific notation
MagnitudeRewrite ==
    /\ pc = "fm_post"
    /\ IF mstr = NonStr
       THEN /\ exc' = <<MatchTypeError>>
            /\ pc' = IF active > 0 THEN "fm_exit" ELSE "done"
            /\ UNCHANGED <<mstr, result>>
       ELSE /\ mstr' = PostProcess(mstr)
            /\ pc' = AfterStep("fm_post")
            /\ result' = Returned(pc', exc, mstr')
            /\ UNCHANGED exc
    /\ events' = Append(events, "rewrite")
    /\ UNCHANGED <<call, locale, saved, active, mspec, uspec, unc_spec, joint_fstring,
                   raw, ustr, locale0>>

(***************************************************************************)
(* format_unit, format_quantity, format_uncertainty, format_measurement.   *)
(***************************************************************************)
\* lines 97-113 of format_quantity: the split of the spec and the choice of
\* the template; the call of format_magnitude comes next (line 117)
QuantitySplit ==
    /\ pc = "fq_split"
    /\ LET sp == SplitFormat(call.spec, call.default_format, call.separate)
       IN  mspec' = sp[1] /\ uspec' = sp[2]
    /\ joint_fstring' = JointFstring(call.magnitude)
    /\ pc' = MagnitudeSteps[1]
    /\ events' = Append(events, "split")
    /\ UNCHANGED <<call, locale, saved, active, unc_spec, raw, mstr, ustr, exc, result,
                   locale0>>

\* the unit spec of the format_unit call: the spec itself, or the unit spec
\* of the split
UnitSpec == IF call.op = "format_unit" THEN call.spec ELSE uspec

\* lines 79-89 of format_unit: <<ustr, error>> for each way it can end; with
\* a locale the unit names are looked up, which can fail
UnitOutcomes ==
    {<<FormatUnit(call.unit, UnitSpec), <<>>>>}
    \cup (IF call.kw # None THEN {<<<<>>, <<Propagated(UnitError)>>>>} ELSE {})

\* format_unit, called alone (line 76), by format_quantity (line 118) or by
\* format_measurement (line 154)
FormatUnitStep ==
    /\ pc = "fu"
    /\ \E o \in UnitOutcomes :
        /\ ustr' = o[1]
        /\ exc' = o[2]
        /\ pc' = IF o[2] # <<>> \/ call.op = "format_unit" THEN "done"
                 ELSE IF call.op = "format_quantity" THEN "fq_join"
                 ELSE "fmeas_join"
        /\ result' = Returned(pc', o[2], o[1])
    /\ events' = Append(events, "format_unit")
    /\ UNCHANGED <<call, locale, saved, active, mspec, uspec, unc_spec, joint_fstring,
                   raw, mstr, locale0>>

\* lines 115-119 of format_quantity: join_mu of the two strings
QuantityJoin ==
    /\ pc = "fq_join"
    /\ result' = <<JoinMu(joint_fstring, mstr, ustr)>>
    /\ pc' = "done"
    /\ events' = Append(events, "join")
    /\ UNCHANGED <<call, locale, saved, active, locals, exc, locale0>>

\* the spec of the format_uncertainty call: the spec itself, or unc_spec
UncertaintySpec == IF call.op = "format_uncertainty" THEN call.spec ELSE unc_spec

\* lines 127-131 of format_uncertainty, called alone or by format_measurement
\* (line 153); the uncertainty's own format raises on an invalid spec
FormatUncertaintyStep ==
    /\ pc = "func"
    /\ IF UncertaintySpec \notin ValidMSpecs
       THEN /\ exc' = <<Propagated(UncertaintyError)>>
            /\ pc' = "done"
            /\ UNCHANGED <<mstr, raw, result>>
       ELSE /\ raw' = UncertaintyText(call.uncertainty, UncertaintySpec)
            /\ mstr' = FormatUncertainty(raw')
            /\ pc' = IF call.op = "format_uncertainty" THEN "done" ELSE "fu"
            /\ result' = Returned(pc', exc, mstr')
            /\ UNCHANGED exc
    /\ events' = Append(events, "format_uncertainty")
    /\ UNCHANGED <<call, locale, saved, active, mspec, uspec, unc_spec, joint_fstring,
                   ustr, locale0>>

\* lines 139-147 of format_measurement
MeasurementSplit ==
    /\ pc = "fmeas_split"
    /\ LET sp == SplitFormat(call.spec, call.default_format, call.separate)
       IN  /\ mspec' = sp[1]
           /\ uspec' = sp[2]
           /\ unc_spec' = UncSpec(call.spec, sp[1])
    /\ joint_fstring' = PlainTemplate
    /\ pc' = "func"
    /\ events' = Append(events, "split")
    /\ UNCHANGED <<call, locale, saved, active, raw, mstr, ustr, exc, result, locale0>>

\* lines 149-155 of format_measurement: join_unc of the two strings
MeasurementJoin ==
    /\ pc = "fmeas_join"
    /\ result' = <<JoinUnc(joint_fstring, <<"(">>, <<")">>, mstr, ustr)>>
    /\ pc' = "done"
    /\ events' = Append(events, "join")
    /\ UNCHANGED <<call, locale, saved, active, locals, exc, locale0>>

\* the caller takes the string or the error; nothing of the call is kept
Return ==
    /\ pc = "done"
    /\ pc' = "idle"
    /\ call' = NoCall
    /\ mspec' = <<>>
    /\ uspec' = <<>>
    /\ unc_spec' = <<>>
    /\ joint_fstring' = PlainTemplate
    /\ raw' = <<>>
    /\ mstr' = <<>>
    /\ ustr' = <<>>
    /\ exc' = <<>>
    /\ result' = <<>>
    /\ events' = <<>>
    /\ locale0' = locale
    /\ UNCHANGED <<locale, saved, active>>

Next ==
    \/ SetLocale
    \/ CallFormatMagnitude
    \/ CallFormatUnit
    \/ CallFormatQuantity
    \/ CallFormatUncertainty
    \/ CallFormatMeasurement
    \/ OverrideEnter
    \/ MagnitudeBody
    \/ OverrideExit
    \/ MagnitudeRewrite
    \/ QuantitySplit
    \/ FormatUnitStep
    \/ QuantityJoin
    \/ FormatUncertaintyStep
    \/ MeasurementSplit
    \/ MeasurementJoin
    \/ Return

Spec == Init /\ [][Next]_vars
(***************************************************************************)
(* Properties.                                                             *)
(***************************************************************************)
\* a call of op has returned a string
ReturnedFrom(op) == pc = "done" /\ call.op = op /\ exc = <<>>

\* the decimal separator in effect inside the with block of the call
CallDp == IF call.kw = None THEN "." ELSE DecimalPoint(call.kw)

IsDigits(d) == d # <<>> /\ \A k \in 1..Len(d) : d[k] \in Digits

\* a decimal number: an optional '-', digits, and an optional '.' with digits
IsDecimal(m) ==
    LET u == IF m # <<>> /\ m[1] = "-" THEN Tail(m) ELSE m
        dots == {k \in 1..Len(u) : u[k] = "."}
    IN  /\ u # <<>>
        /\ u[1] \in Digits
        /\ Cardinality(dots) <= 1
        /\ \A k \in 1..Len(u) : u[k] \in Digits \cup {"."}

\* the positions of the 'e' that split t into <mantissa>e<sign><digits>
SciSplits(t) ==
    {k \in 2..(Len(t) - 2) :
        /\ t[k] = "e"
        /\ IsDecimal(SubSeq(t, 1, k - 1))
        /\ t[k + 1] \in {"+", "-"}
        /\ IsDigits(SubSeq(t, k + 2, Len(t)))}

\* <mantissa>×10<sup>n</sup> for t = <mantissa>e<sign><digits>, n the
\* exponent as a signed integer
SciHtml(t) ==
    LET k == CHOOSE j \in SciSplits(t) : TRUE
        n == ParseNat(SubSeq(t, k + 2, Len(t)))
    IN  SubSeq(t, 1, k - 1) \o Times10 \o SupOpen
        \o IntToStr(IF t[k + 1] = "-" THEN 0 - n ELSE n) \o SupClose

IsPlainScalar(magnitude) == magnitude.kind = "scalar" /\ ~HasReprHtml(magnitude)

\* C1: format_magnitude of a plain scalar with the empty spec returns the
\* string of the number formatter, or, when that string is
\* <mantissa>e<sign><digits>, <mantissa>×10<sup>n</sup>.
C1_ScalarRendering ==
    (ReturnedFrom("format_magnitude") /\ IsPlainScalar(call.magnitude)
        /\ call.spec = <<>>)
    => result = <<IF SciSplits(raw) # {} THEN SciHtml(raw) ELSE raw>>

\* C2: the rewrite of format_magnitude changes the match at the start of the
\* string only: what follows that match is returned as it was.
C2_OneSubstitution ==
    (ReturnedFrom("format_magnitude") /\ ExpMatch(raw).ok)
    => LET m == ExpMatch(raw)
       IN  result = <<m.g1 \o Times10 \o ExpFormatter(ParseInt(m.g2 \o m.g3))
                      \o SubSeq(raw, m.last + 1, Len(raw))>>

\* C3: once the with block of format_magnitude is left, by a return or by an
\* error, the locale is the one of before the call and no override is active.
C3_LocaleRestored ==
    (pc \in {"done", "fm_post", "fu", "fq_join", "idle"})
    => (locale = locale0 /\ saved = <<>> /\ active = 0)

\* C3 witness: format_magnitude has ended with an error raised inside the
\* with block while another locale was in effect.
C3_Witness ==
    /\ pc = "done"
    /\ call.op = "format_magnitude"
    /\ exc # <<>>
    /\ exc[1] \in {ReprError, NumberError, ArrayError}
    /\ call.kw # None
    /\ call.kw # locale0
    /\ \E k \in 1..Len(events) : events[k] = "acquire"

\* the number of values of a magnitude
Size(magnitude) == Len(magnitude.rows) * Len(magnitude.rows[1])

IsNotNewline(c) == c # "\n"

\* the string the claim gives for an array-like: the text between <pre> and
\* </pre>, its newlines removed (ndarray) or replaced by <br> (other)
PreWrapped(magnitude, text) ==
    IF IsNdarray(magnitude)
    THEN PreOpen \o SelectSeq(text, IsNotNewline) \o PreClose
    ELSE PreOpen \o Replace(text, <<"\n">>, Br) \o PreClose

IsPreWrapped(r) ==
    /\ HasAt(r, 1, PreOpen)
    /\ HasAt(r, Len(r) - Len(PreClose) + 1, PreClose)

\* C4 as stated: every array-like magnitude of more than one element is
\* returned between <pre> and </pre>.
C4_Original ==
    (ReturnedFrom("format_magnitude") /\ call.magnitude.ndim >= 1
        /\ Size(call.magnitude) > 1)
    => IsPreWrapped(result[1])

\* C4 as amended: every array-like magnitude of more than one element that
\* has no _repr_html_ is returned between <pre> and </pre>, the newlines of
\* its text replaced by <br>, or removed (and no <br> written) for an ndarray.
C4_PreWrapped ==
    (ReturnedFrom("format_magnitude") /\ call.magnitude.ndim >= 1
        /\ Size(call.magnitude) > 1 /\ ~HasReprHtml(call.magnitude))
    => /\ result = <<PreWrapped(call.magnitude, ArrayText(call.magnitude, call.spec, CallDp))>>
       /\ IsPreWrapped(result[1])
       /\ ~Contains(result[1], <<"\n">>)
       /\ IsNdarray(call.magnitude) => ~Contains(result[1], Br)

\* C4 witness: a matrix held in an ndarray, whose text has a newline, has
\* been formatted.
C4_Witness ==
    /\ ReturnedFrom("format_magnitude")
    /\ IsNdarray(call.magnitude)
    /\ call.magnitude.ndim = 2
    /\ ~HasReprHtml(call.magnitude)
    /\ Contains(ArrayText(call.magnitude, call.spec, CallDp), <<"\n">>)

\* the two-row table around a magnitude and a unit, as the claim gives it
TableHead ==
    <<"<", "t", "a", "b", "l", "e", ">", "<", "t", "b", "o", "d", "y",
      ">", "<", "t", "r", ">", "<", "t", "h", ">", "M", "a", "g", "n",
      "i", "t", "u", "d", "e", "<", "/", "t", "h", ">", "<", "t", "d",
      " ", "s", "t", "y", "l", "e", "=", "'", "t", "e", "x", "t", "-",
      "a", "l", "i", "g", "n", ":", "l", "e", "f", "t", ";", "'", ">">>

TableMiddle ==
    <<"<", "/", "t", "d", ">", "<", "/", "t", "r", ">", "<", "t", "r",
      ">", "<", "t", "h", ">", "U", "n", "i", "t", "s", "<", "/", "t",
      "h", ">", "<", "t", "d", " ", "s", "t", "y", "l", "e", "=", "'",
      "t", "e", "x", "t", "-", "a", "l", "i", "g", "n", ":", "l", "e",
      "f", "t", ";", "'", ">">>

TableTail ==
    <<"<", "/", "t", "d", ">", "<", "/", "t", "r", ">", "<", "/", "t",
      "b", "o", "d", "y", ">", "<", "/", "t", "a", "b", "l", "e", ">">>

UFloatHtml(u, spec) ==
    LET e == IF u.exp # <<>> THEN u.exp
             ELSE IF spec = SpecE
             THEN <<[neg |-> FALSE, zeros |-> 1, digits |-> <<"0">>]>>
             ELSE <<>>
        body == u.nom \o PlusMinus \o u.err
    IN  IF e = <<>> THEN body
        ELSE <<"(">> \o body \o <<")">> \o Times10 \o SupOpen
             \o (IF e[1].neg THEN <<"-">> ELSE <<>>)
             \o StripZeros(Repeat("0", e[1].zeros) \o e[1].digits) \o SupClose

\* C6: format_uncertainty writes ' &plusmn; ' for every '+/-' and rewrites
\* every ')e+<digits>' and ')e-<digits>' with the exponent without its
\* leading zeros, however many.
C6_UncertaintyRewrite ==
    ReturnedFrom("format_uncertainty")
    => result = <<Join(<<" ">>, [k \in 1..Len(call.uncertainty) |->
                                    UFloatHtml(call.uncertainty[k], call.spec)])>>

CollaboratorErrors ==
    {ReprError, NumberError, ArrayError, UnitError, UncertaintyError}

\* C7 as stated: a call ends with a string or with the error a collaborator
\* raised, unchanged.
C7_Original ==
    pc = "done"
    => /\ (exc # <<>>) => (exc[1] \in CollaboratorErrors /\ result = <<>>)
       /\ (exc = <<>>) => (result # <<>>)

\* C7 as amended: a call ends with a string or with the error a collaborator
\* raised, unchanged, except that format_magnitude fails by itself when
\* _repr_html_ returns an object that is no string (the assertion of line 42,
\* or the pattern match of line 67 when assertions are compiled away).
C7_ErrorsPropagate ==
    pc = "done"
    => /\ (exc # <<>>)
            => /\ result = <<>>
               /\ \/ exc[1] \in CollaboratorErrors
                  \/ /\ exc[1] \in {AssertionFailure, MatchTypeError}
                     /\ call.op = "format_magnitude"
                     /\ HasReprHtml(call.magnitude)
                     /\ call.magnitude.repr[1].tag = "nonstr"
       /\ (exc = <<>>) => (result # <<>> /\ result[1] # NonStr)
       /\ (HasReprHtml(call.magnitude) /\ call.magnitude.repr[1].tag = "nonstr")
            => exc # <<>>

\* C7 witness: format_quantity has ended with the error of the unit
\* compounder, after the magnitude was formatted.
C7_Witness ==
    /\ pc = "done"
    /\ call.op = "format_quantity"
    /\ exc = <<UnitError>>
    /\ mstr # <<>>

\* a string that begins with a digit, an optional '.', digits, 'e', an
\* optional '-', an optional '+' and a digit
BeginsWithExponent(t) ==
    \E k \in 2..Len(t) :
        /\ t[k] = "e"
        /\ t[1] \in Digits
        /\ \A j \in 2..(k - 1) : t[j] \in Digits \/ (j = 2 /\ t[j] = ".")
        /\ \E d \in (k + 1)..Len(t) :
            /\ t[d] \in Digits
            /\ SubSeq(t, k + 1, d - 1) \in {<<>>, <<"-">>, <<"+">>, <<"-", "+">>}

IsReprString(magnitude) ==
    HasReprHtml(magnitude) /\ magnitude.repr[1].tag = "str"

\* C8 as stated: the string _repr_html_ returns is returned as it is.
C8_Original ==
    (ReturnedFrom("format_magnitude") /\ IsReprString(call.magnitude))
    => result = <<call.magnitude.repr[1].s>>

\* C8 as amended: the string _repr_html_ returns is returned as it is,
\* whatever the spec and the kind of the magnitude and without <pre>,
\* unless it begins with scientific notation.
C8_ReprVerbatim ==
    (ReturnedFrom("format_magnitude") /\ IsReprString(call.magnitude)
        /\ ~BeginsWithExponent(call.magnitude.repr[1].s))
    => result = <<call.magnitude.repr[1].s>>

\* C8 witness: an array that renders itself, with an exponent that is not at
\* the start of its output, has been formatted with a spec.
C8_Witness ==
    /\ ReturnedFrom("format_magnitude")
    /\ IsReprString(call.magnitude)
    /\ call.magnitude.ndim >= 1
    /\ call.spec # <<>>
    /\ call.magnitude.repr[1].s = <<"-", "1", "e", "1">>

\* the value between parentheses unless it brings its own, a space, the unit
Parenthesized(m, u) ==
    IF u = <<>> THEN m
    ELSE IF m[1] = "(" \/ m[Len(m)] = ")" THEN m \o <<" ">> \o u
    ELSE <<"(">> \o m \o <<")", " ">> \o u

\* C9: format_measurement formats the magnitude with the whole spec without
\* its custom flags, the units with the unit spec of the split, and joins
\* the two with "{} {}" and the parentheses; the magnitude spec of the split
\* is not used.
C9_MeasurementSpec ==
    ReturnedFrom("format_measurement")
    => LET whole == SelectSeq(call.spec, IsNotCustom)
           split == SplitFormat(call.spec, call.default_format, call.separate)
           m == FormatUncertainty(UncertaintyText(call.uncertainty, whole))
           u == FormatUnit(call.unit, split[2])
       IN  /\ unc_spec = whole
           /\ mstr = m
           /\ ustr = u
           /\ joint_fstring = PlainTemplate
           /\ result = <<Parenthesized(m, u)>>

\* C9 witness: a measurement has been formatted whose split magnitude spec
\* (from the registry default) differs from the spec without its flags.
C9_Witness ==
    /\ ReturnedFrom("format_measurement")
    /\ mspec # unc_spec
    /\ ustr # <<>>

Count(seq, x) == Cardinality({k \in 1..Len(seq) : seq[k] = x})

Before(seq, x, y) ==
    \A j \in 1..Len(seq) : seq[j] = y => \E k \in 1..(j - 1) : seq[k] = x

\* C10: in a call the override is acquired and released once at most, inside
\* format_magnitude; the locale is back before the rewrite and before
\* format_unit; format_unit, format_uncertainty and format_measurement
\* acquire nothing; one override at most is active.
C10_OverrideOrdering ==
    /\ active <= 1
    /\ Count(events, "acquire") <= 1
    /\ Count(events, "release") <= Count(events, "acquire")
    /\ active = Count(events, "acquire") - Count(events, "release")
    /\ Before(events, "release", "rewrite")
    /\ call.op = "format_quantity" =>
        /\ Before(events, "release", "format_unit")
        /\ Before(events, "rewrite", "format_unit")
    /\ pc \in {"fm_post", "fu", "fq_join", "func", "fmeas_join"} =>
        (active = 0 /\ locale = locale0)
    /\ call.op \in {"format_unit", "format_uncertainty", "format_measurement"} =>
        Count(events, "acquire") = 0
    /\ ReturnedFrom("format_quantity") =>
        events = <<"split", "acquire", "render", "release", "rewrite",
                   "format_unit", "join">>

\* C10 witness: format_quantity has returned after an override that changed
\* the locale.
C10_Witness ==
    /\ ReturnedFrom("format_quantity")
    /\ call.kw # None
    /\ call.kw # locale0
    /\ Count(events, "acquire") = 1
    /\ Count(events, "release") = 1

====
